---- MODULE Spec2Model ----
(***************************************************************************)
(* Calorie counter backend: the USDA matching and nutrition engine         *)
(* (services/usdaService.ts) and the POST /get-calories route in front of  *)
(* it.                                                                     *)
(*                                                                         *)
(* Strings are TLA+ strings handled character by character.  Numbers are   *)
(* exact rationals held as integers in a fixed unit:                       *)
(*   nutrient values (kcal, kJ, grams per 100 g)   hundredths              *)
(*   serving sizes and gram weights                whole grams             *)
(*   servings                                      tenths                  *)
(*   rounded macronutrient outputs (1 decimal)     tenths                  *)
(*   calorie outputs (Math.round)                  whole kcal              *)
(***************************************************************************)
EXTENDS Integers, Sequences, FiniteSets, TLC

VARIABLES upstream, pc, caller, dishName, servings, outcome, httpStatus,
          trail, token, userRow, searchRequests, selectorCalls, inv, reg

vars == <<upstream, pc, caller, dishName, servings, outcome, httpStatus,
          trail, token, userRow, searchRequests, selectorCalls, inv, reg>>

(***************************************************************************)
(* Bounds of the model.                                                    *)
(***************************************************************************)
MaxFoods == 2

(***************************************************************************)
(* Nutrient identifiers (types/index.ts).                                  *)
(***************************************************************************)
ENERGY_KCAL == 1008
ENERGY_KJ == 1062
PROTEIN == 1003
TOTAL_FAT == 1004
CARBS == 1005
FIBER == 1079
SUGARS == 2000
SATURATED_FAT == 1258

(***************************************************************************)
(* JavaScript string operations.                                           *)
(***************************************************************************)
IsWhitespace(c) == c \in {" ", "\t", "\n"}

UpperCaseLetters == "ABCDEFGHIJKLMNOPQRSTUVWXYZ"

LowerCaseLetters == "abcdefghijklmnopqrstuvwxyz"

\* the lower-case letter of every upper-case letter
LowerCaseOf ==
  [c \in {SubSeq(UpperCaseLetters, k, k) : k \in 1..26} |->
     LET k == CHOOSE j \in 1..26 : SubSeq(UpperCaseLetters, j, j) = c
     IN  SubSeq(LowerCaseLetters, k, k)]

LowerChar(c) == IF c \in DOMAIN LowerCaseOf THEN LowerCaseOf[c] ELSE c

RECURSIVE ToLowerCase(_)
ToLowerCase(s) ==
  IF Len(s) = 0 THEN ""
  ELSE IF Len(s) = 1 THEN LowerChar(s)
  ELSE LET half == Len(s) \div 2
       IN  ToLowerCase(SubSeq(s, 1, half)) \o ToLowerCase(SubSeq(s, half + 1, Len(s)))

RECURSIVE TrimStart(_)
TrimStart(s) ==
  IF Len(s) > 0 /\ IsWhitespace(SubSeq(s, 1, 1))
  THEN TrimStart(SubSeq(s, 2, Len(s)))
  ELSE s

RECURSIVE TrimEnd(_)
TrimEnd(s) ==
  IF Len(s) > 0 /\ IsWhitespace(SubSeq(s, Len(s), Len(s)))
  THEN TrimEnd(SubSeq(s, 1, Len(s) - 1))
  ELSE s

Trim(s) == TrimEnd(TrimStart(s))

StartsWith(s, p) == Len(p) <= Len(s) /\ SubSeq(s, 1, Len(p)) = p

Includes(s, p) ==
  \E i \in 0..(Len(s) - Len(p)) : SubSeq(s, i + 1, i + Len(p)) = p

\* s.split(/\s+/): the pieces between maximal runs of whitespace; a leading
\* or trailing run leaves an empty piece, and "" splits into <<"">>.
RECURSIVE SplitWhitespace(_)
SplitWhitespace(s) ==
  LET ws == {i \in 1..Len(s) : IsWhitespace(SubSeq(s, i, i))}
  IN  IF ws = {} THEN <<s>>
      ELSE LET first == CHOOSE i \in ws : \A j \in ws : i <= j
               rest  == TrimStart(SubSeq(s, first, Len(s)))
           IN  <<SubSeq(s, 1, first - 1)>> \o SplitWhitespace(rest)

\* Math.round: the nearest integer to num/den (den > 0), halves towards
\* plus infinity.
MathRound(num, den) == (2 * num + den) \div (2 * den)

(***************************************************************************)
(* Match selector.                                                         *)
(***************************************************************************)
\* Array.prototype.find over the indices whose element satisfies the
\* callback: the least of them, 0 when there is none (undefined).
FindFirst(satisfying) ==
  IF satisfying = {} THEN 0
  ELSE CHOOSE i \in satisfying : \A j \in satisfying : i <= j

NormalizedQuery(query) == Trim(ToLowerCase(query))

\* food.description || ''  (an absent description is held as "")
GetDescription(food) == food.description

\* food.lowercaseDescription || ''
GetLowercaseDescription(food) == food.lowercaseDescription

\* mutant: the exact tier accepts a description that merely starts with the query
IsExactMatch_Prefix(food, nq) ==
  \/ StartsWith(ToLowerCase(food.description), nq)
  \/ StartsWith(food.lowercaseDescription, nq)

IsExactMatch(food, nq) ==
  \/ ToLowerCase(GetDescription(food)) = nq
  \/ GetLowercaseDescription(food) = nq

\* mutant: the starts-with tier accepts the query anywhere in the description
IsStartsWithMatch_Anywhere(food, nq) ==
  \/ Includes(ToLowerCase(food.description), nq)
  \/ Includes(food.lowercaseDescription, nq)

IsStartsWithMatch(food, nq) ==
  \/ StartsWith(ToLowerCase(GetDescription(food)), nq)
  \/ StartsWith(GetLowercaseDescription(food), nq)

IsContainsMatch(food, nq) ==
  \/ Includes(ToLowerCase(GetDescription(food)), nq)
  \/ Includes(GetLowercaseDescription(food), nq)

QueryWords(nq) == SelectSeq(SplitWhitespace(nq), LAMBDA w : Len(w) > 0)

MatchingWords(food, queryWords) ==
  LET foodWords == SplitWhitespace(ToLowerCase(GetDescription(food)))
  IN  SelectSeq(queryWords,
        LAMBDA qw : \E k \in 1..Len(foodWords) :
                      Includes(foodWords[k], qw) \/ Includes(qw, foodWords[k]))

DataTypeBoost(food) ==
  IF food.dataType = "Foundation" THEN 20
  ELSE IF food.dataType = "SR Legacy" THEN 15
  ELSE IF food.dataType = "Survey (FNDDS)" THEN 10
  ELSE 0

HasCalories(food) ==
  \E k \in 1..Len(food.foodNutrients) :
    /\ food.foodNutrients[k].nutrientId = ENERGY_KCAL
    /\ food.foodNutrients[k].value > 0

\* The tier-4 score multiplied by the number of query words n, so that the
\* word share matching/n * 100 stays an integer.
ScoreTimesN(food, queryWords) ==
  LET n == Len(queryWords)
  IN  Len(MatchingWords(food, queryWords)) * 100
      + n * DataTypeBoost(food)
      + (IF HasCalories(food) THEN n * 10 ELSE 0)
      - (IF Len(GetDescription(food)) > 100 THEN n * 5 ELSE 0)

\* mutant: among equal maximum scores the latest candidate comes first
BestScoredIndex_Last(foods, queryWords) ==
  LET score == [i \in 1..Len(foods) |-> ScoreTimesN(foods[i], queryWords)]
  IN  CHOOSE i \in 1..Len(foods) :
        /\ \A j \in 1..Len(foods) : score[j] <= score[i]
        /\ \A j \in (i + 1)..Len(foods) : score[j] < score[i]

\* scoredFoods.sort((a, b) => b.score - a.score)[0]: the sort is stable, so
\* the head is the earliest candidate holding the maximum score.
BestScoredIndex(foods, queryWords) ==
  LET score == [i \in 1..Len(foods) |-> ScoreTimesN(foods[i], queryWords)]
  IN  CHOOSE i \in 1..Len(foods) :
        /\ \A j \in 1..Len(foods) : score[j] <= score[i]
        /\ \A j \in 1..(i - 1) : score[j] < score[i]

\* mutant: a best score of exactly 20 counts as reasonable
IsReasonableScore_Inclusive(scoreTimesN, n) == scoreTimesN >= 20 * n

\* bestScored.score > 20
IsReasonableScore(scoreTimesN, n) == scoreTimesN > 20 * n

\* mutant: the selector passes over candidates without a positive kcal sample
FindBestMatch_WithEnergy(foods, query) ==
  IF Len(foods) = 0 THEN 0
  ELSE
    LET withEnergy == FindFirst({i \in 1..Len(foods) : HasCalories(foods[i])})
    IN  IF withEnergy # 0 THEN withEnergy ELSE 1

\* findBestMatch as the index of the returned food in foods, 0 for null.
FindBestMatch(foods, query) ==
  IF Len(foods) = 0 THEN 0
  ELSE
    LET normalizedQuery == NormalizedQuery(query)
        exactMatch      == FindFirst({i \in 1..Len(foods) : IsExactMatch(foods[i], normalizedQuery)})
        startsWithMatch == FindFirst({i \in 1..Len(foods) : IsStartsWithMatch(foods[i], normalizedQuery)})
        containsMatch   == FindFirst({i \in 1..Len(foods) : IsContainsMatch(foods[i], normalizedQuery)})
        queryWords      == QueryWords(normalizedQuery)
        bestScored      == BestScoredIndex(foods, queryWords)
    IN  IF exactMatch # 0 THEN exactMatch
        ELSE IF startsWithMatch # 0 THEN startsWithMatch
        ELSE IF containsMatch # 0 THEN containsMatch
        ELSE IF IsReasonableScore(ScoreTimesN(foods[bestScored], queryWords),
                                  Len(queryWords))
             THEN bestScored
        ELSE 1

(***************************************************************************)
(* Nutrient extractor.                                                     *)
(***************************************************************************)
\* food.foodNutrients.find(n => n.nutrientId === nutrientId) as an index.
FindNutrient(food, nutrientId) ==
  FindFirst({k \in 1..Len(food.foodNutrients) :
               food.foodNutrients[k].nutrientId = nutrientId})

\* nutrient?.value || 0
GetNutrientValue(food, nutrientId) ==
  LET k == FindNutrient(food, nutrientId)
  IN  IF k = 0 THEN 0 ELSE food.foodNutrients[k].value

RequiredMacros == {"protein", "total_fat", "carbohydrates"}
OptionalMacros == {"fiber", "sugars", "saturated_fat"}

MacroNutrientId(key) ==
  CASE key = "protein"       -> PROTEIN
    [] key = "total_fat"     -> TOTAL_FAT
    [] key = "carbohydrates" -> CARBS
    [] key = "fiber"         -> FIBER
    [] key = "sugars"        -> SUGARS
    [] key = "saturated_fat" -> SATURATED_FAT

\* The per-100 g macronutrient object in hundredths of a gram.  A key whose
\* value is undefined (getNutrientValue(..) || undefined) is outside the
\* domain.
ExtractMacronutrientsPer100g(food) ==
  LET defined == RequiredMacros \cup
                 {k \in OptionalMacros : GetNutrientValue(food, MacroNutrientId(k)) # 0}
  IN  [k \in defined |-> GetNutrientValue(food, MacroNutrientId(k))]

\* mutant: a kcal sample is used whenever its value is not zero
ExtractCaloriesPer100g_AnyKcal(food) ==
  LET kcal == FindNutrient(food, ENERGY_KCAL)
      kj   == FindNutrient(food, ENERGY_KJ)
  IN  IF kcal # 0 /\ food.foodNutrients[kcal].value # 0
      THEN food.foodNutrients[kcal].value
      ELSE IF kj # 0 /\ food.foodNutrients[kj].value > 0
      THEN 100 * MathRound(10 * food.foodNutrients[kj].value, 4184)
      ELSE 0

\* Calories per 100 g in hundredths of a kcal; 0 when no energy is found.
ExtractCaloriesPer100g(food) ==
  LET kcal == FindNutrient(food, ENERGY_KCAL)
      kj   == FindNutrient(food, ENERGY_KJ)
  IN  IF kcal # 0 /\ food.foodNutrients[kcal].value > 0
      THEN food.foodNutrients[kcal].value
      ELSE IF kj # 0 /\ food.foodNutrients[kj].value > 0
      THEN 100 * MathRound(10 * food.foodNutrients[kj].value, 4184)
      ELSE 0

(***************************************************************************)
(* Serving size resolver (whole grams).  An absent servingSize is held as  *)
(* 0, an absent servingSizeUnit as "" and an absent foodMeasures as <<>>:  *)
(* every test the code makes treats them alike.                            *)
(***************************************************************************)
\* mutant: the declared serving size is used whatever its sign
CalculateServingSize_AnySize(food) ==
  IF Includes(ToLowerCase(food.servingSizeUnit), "g") THEN food.servingSize
  ELSE IF Len(food.foodMeasures) > 0 THEN food.foodMeasures[1].gramWeight
  ELSE 100

CalculateServingSize(food) ==
  LET unit    == ToLowerCase(food.servingSizeUnit)
      measure == FindFirst({k \in 1..Len(food.foodMeasures) :
                   Includes(ToLowerCase(food.foodMeasures[k].measureUnitName), unit)})
  IN  IF food.servingSize > 0 /\ Includes(unit, "g")
      THEN food.servingSize
      ELSE IF food.servingSize > 0 /\ Len(food.foodMeasures) > 0 /\ measure # 0
      THEN food.foodMeasures[measure].gramWeight * food.servingSize
      ELSE IF Len(food.foodMeasures) > 0
      THEN food.foodMeasures[1].gramWeight
      ELSE 100

(***************************************************************************)
(* Nutrition calculator.                                                   *)
(***************************************************************************)
\* `value &&` on a possibly undefined number
Truthy(obj, key) == key \in DOMAIN obj /\ obj[key] # 0

\* mutant: the per-serving macronutrients are truncated to a tenth of a gram
MacronutrientsPerServing_Truncated(per100g, servingSizeGrams) ==
  [k \in RequiredMacros \cup {o \in OptionalMacros : Truthy(per100g, o)} |->
     (per100g[k] * servingSizeGrams) \div 1000]

\* macronutrientsPerServing, in tenths of a gram
MacronutrientsPerServing(per100g, servingSizeGrams) ==
  [k \in RequiredMacros \cup {o \in OptionalMacros : Truthy(per100g, o)} |->
     MathRound(per100g[k] * servingSizeGrams, 1000)]

\* mutant: the totals are rounded to whole grams
TotalMacronutrients_WholeGrams(perServing, srv) ==
  [k \in RequiredMacros \cup {o \in OptionalMacros : Truthy(perServing, o)} |->
     MathRound(perServing[k] * srv, 100) * 10]

\* totalMacronutrients, in tenths of a gram
TotalMacronutrients(perServing, srv) ==
  [k \in RequiredMacros \cup {o \in OptionalMacros : Truthy(perServing, o)} |->
     MathRound(perServing[k] * srv, 10)]

\* ingredient_breakdown[0].macronutrients_per_100g, in tenths of a gram
MacronutrientsPer100gOut(per100g) ==
  [k \in RequiredMacros \cup {o \in OptionalMacros : Truthy(per100g, o)} |->
     MathRound(per100g[k], 10)]

\* mutant: the per-serving calories are truncated instead of rounded
CaloriesPerServing_Truncated(caloriesPer100g, servingSizeGrams) ==
  (caloriesPer100g * servingSizeGrams) \div 10000

CaloriesPerServing(caloriesPer100g, servingSizeGrams) ==
  MathRound(caloriesPer100g * servingSizeGrams, 10000)

\* mutant: the total is truncated instead of rounded
TotalCalories_Truncated(caloriesPerServing, srv) == (caloriesPerServing * srv) \div 10

TotalCalories(caloriesPerServing, srv) == MathRound(caloriesPerServing * srv, 10)

(***************************************************************************)
(* calculateCalories.                                                      *)
(***************************************************************************)
MsgDishNameEmpty == "Dish name cannot be empty"
MsgServingsNotPositive == "Servings must be a positive number"
MsgNoFoodsFound(d) ==
  "No foods found for \"" \o d \o "\". Try a more specific or common food name."
MsgNoSuitableMatch(d) ==
  "No suitable match found for \"" \o d \o "\". Try a different search term."
MsgNoCalorieInformation(d, description) ==
  "No calorie information available for \"" \o d \o "\". The food \""
    \o description \o "\" does not have energy data."
MsgUnableToCalculate ==
  "Unable to calculate calories. Please try again or use a different food name."

NoOutcome ==
  [kind |-> "none", message |-> "", matched |-> 0, name |-> "",
   calories_per_100g |-> 0, serving_size_grams |-> 0,
   calories_per_serving |-> 0, total_calories |-> 0,
   macronutrients_per_100g |-> <<>>, macronutrients_per_serving |-> <<>>,
   total_macronutrients |-> <<>>]

\* The catch block of calculateCalories: a user-friendly error is re-thrown,
\* anything else is replaced by the generic error.
CatchCalculateCalories(message, matched) ==
  [NoOutcome EXCEPT
     !.kind = "error",
     !.matched = matched,
     !.message =
       IF \/ Includes(message, "No foods found")
          \/ Includes(message, "No suitable match found")
          \/ Includes(message, "No calorie information available")
          \/ Includes(message, "Dish name cannot be empty")
          \/ Includes(message, "Servings must be positive")
       THEN message
       ELSE MsgUnableToCalculate]

\* The input checks that run before searchFoods: the message thrown, or ""
\* when both pass.
InputError(d, srv) ==
  IF Len(d) = 0 \/ Len(Trim(d)) = 0 THEN MsgDishNameEmpty
  ELSE IF srv <= 0 THEN MsgServingsNotPositive
  ELSE ""

\* searchFoods: the message of the error it throws for an upstream answer
\* that is not a well-formed food list.
SearchFoodsError(up) ==
  CASE up.kind = "http400" -> "Invalid search query for USDA API"
    [] up.kind = "http403" -> "Invalid USDA API key"
    [] up.kind = "timeout" -> "USDA API request timeout"
    [] OTHER               -> "Failed to search foods from USDA API"

\* calculateCalories from the point where searchFoods has returned foods.
CalculateFromFoods(foods, d, srv) ==
  IF Len(foods) = 0 THEN CatchCalculateCalories(MsgNoFoodsFound(d), 0)
  ELSE
    LET bestMatch == FindBestMatch(foods, d)
    IN  IF bestMatch = 0 THEN CatchCalculateCalories(MsgNoSuitableMatch(d), 0)
        ELSE
          LET food             == foods[bestMatch]
              caloriesPer100g  == ExtractCaloriesPer100g(food)
              per100g          == ExtractMacronutrientsPer100g(food)
              servingSizeGrams == CalculateServingSize(food)
              caloriesPerServing == CaloriesPerServing(caloriesPer100g, servingSizeGrams)
              perServing       == MacronutrientsPerServing(per100g, servingSizeGrams)
          IN  IF caloriesPer100g = 0
              THEN CatchCalculateCalories(
                     MsgNoCalorieInformation(d, food.description), bestMatch)
              ELSE [kind |-> "ok", message |-> "", matched |-> bestMatch,
                    name |-> food.description,
                    calories_per_100g |-> caloriesPer100g,
                    serving_size_grams |-> servingSizeGrams,
                    calories_per_serving |-> caloriesPerServing,
                    total_calories |-> TotalCalories(caloriesPerServing, srv),
                    macronutrients_per_100g |-> MacronutrientsPer100gOut(per100g),
                    macronutrients_per_serving |-> perServing,
                    total_macronutrients |-> TotalMacronutrients(perServing, srv)]

\* calculateCalories once the search has settled with the upstream answer.
CalculateAfterSearch(up, d, srv) ==
  IF up.kind = "ok" THEN CalculateFromFoods(up.foods, d, srv)
  ELSE CatchCalculateCalories(SearchFoodsError(up), 0)

(***************************************************************************)
(* POST /get-calories.                                                     *)
(***************************************************************************)
\* getCaloriesSchema.safeParse: dish_name of at least one character and
\* servings positive.
SchemaAccepts(d, srv) == Len(d) >= 1 /\ srv > 0

\* The catch block of the route: the status answered for a thrown message.
RouteErrorStatus(message) ==
  IF Includes(message, "No foods found") \/ Includes(message, "No suitable match found")
  THEN 404
  ELSE IF Includes(message, "No calorie information available") THEN 422
  ELSE 500

RouteStatus(out) == IF out.kind = "ok" THEN 200 ELSE RouteErrorStatus(out.message)

(***************************************************************************)
(* Inputs: dish names, servings, and the answers the USDA API can give.    *)
(***************************************************************************)
DishNames ==
  {"", "   ", "apple", " Apple ", "apple pie", "fish", "No foods found",
   "chicken biryani"}

\* servings, in tenths
ServingsPool == {-10, 0, 5, 10, 20}

Nutrient(id, v) == [nutrientId |-> id, value |-> v]

Measure(unitName, grams) == [measureUnitName |-> unitName, gramWeight |-> grams]

Food(description, lowercaseDescription, dataType, nutrients, serving) ==
  [description |-> description, lowercaseDescription |-> lowercaseDescription,
   dataType |-> dataType, foodNutrients |-> nutrients,
   servingSize |-> serving[1], servingSizeUnit |-> serving[2],
   foodMeasures |-> serving[3]]

NoServing == <<0, "", <<>>>>

Kcal52 == <<Nutrient(ENERGY_KCAL, 5200)>>

LongDescription ==
  "Beef, chuck, under blade pot roast or steak, boneless, separable lean and "
    \o "fat, trimmed to 0 inch, cooked"

\* Candidates that differ in what the match selector looks at.
SelectorFoods ==
  { Food("Apple", "apple", "Survey (FNDDS)", Kcal52, NoServing),
    Food("APPLE PIE", "apple pie", "Branded", <<>>, NoServing),
    Food("Pineapple, raw", "pineapple, raw", "Foundation", Kcal52, NoServing),
    Food("Pie, apple", "pie, apple", "SR Legacy", Kcal52, NoServing),
    Food("Banana", "", "Branded", <<>>, NoServing),
    Food("Granny Smith", "apple", "Foundation", <<>>, NoServing),
    Food("Crabapple jelly", "apple jelly", "SR Legacy", Kcal52, NoServing),
    Food(LongDescription, ToLowerCase(LongDescription), "SR Legacy", Kcal52, NoServing),
    Food(" Rice", " rice", "Branded", <<>>, NoServing),
    Food("", "", "Foundation", <<>>, NoServing) }

\* Energy samples of a candidate (hundredths of kcal / kJ).
EnergySamples ==
  { <<>>,
    <<Nutrient(ENERGY_KCAL, 18000)>>,
    <<Nutrient(ENERGY_KCAL, 100)>>,
    <<Nutrient(ENERGY_KCAL, 18000), Nutrient(ENERGY_KJ, 41840)>>,
    <<Nutrient(ENERGY_KCAL, 0), Nutrient(ENERGY_KJ, 41840)>>,
    <<Nutrient(ENERGY_KJ, 41840)>>,
    <<Nutrient(ENERGY_KJ, 200)>>,
    <<Nutrient(ENERGY_KCAL, -500), Nutrient(ENERGY_KJ, 0)>>,
    <<Nutrient(ENERGY_KCAL, 0), Nutrient(ENERGY_KCAL, 18000), Nutrient(ENERGY_KJ, 41840)>>,
    <<Nutrient(ENERGY_KJ, 0), Nutrient(ENERGY_KJ, 41840)>> }

\* Macronutrient samples of a candidate (hundredths of a gram).
MacroSamples ==
  { <<>>,
    <<Nutrient(PROTEIN, 1570), Nutrient(TOTAL_FAT, 500), Nutrient(CARBS, 2000),
      Nutrient(FIBER, 150), Nutrient(SUGARS, 4), Nutrient(SATURATED_FAT, 0)>>,
    <<Nutrient(PROTEIN, 1570), Nutrient(FIBER, -100)>>,
    <<Nutrient(FIBER, 50), Nutrient(SUGARS, 0), Nutrient(SUGARS, 300)>>,
    <<Nutrient(CARBS, 1234), Nutrient(SATURATED_FAT, 225)>> }

\* Serving data of a candidate: servingSize, servingSizeUnit, foodMeasures.
ServingSamples ==
  { NoServing,
    <<156, "g", <<>>>>,
    <<50, "G", <<Measure("cup", 240)>>>>,
    <<5, "g", <<>>>>,
    <<2, "cup", <<Measure("slice", 28), Measure("Cup", 240)>>>>,
    <<0, "", <<Measure("slice", 28)>>>>,
    <<-5, "g", <<>>>>,
    <<2, "kg", <<Measure("kg", 1000)>>>>,
    <<500, "mg", <<Measure("tablet", 1)>>>>,
    <<2, "", <<Measure("slice", 28)>>>>,
    <<3, "oz", <<Measure("cup", 240)>>>> }

\* Candidates that differ in what the extractor, the resolver and the
\* calculator look at.
NutritionFoods ==
  { Food("Apple", "apple", "Survey (FNDDS)", e \o m, sv) :
      e \in EnergySamples, m \in MacroSamples, sv \in ServingSamples }

\* The candidate of the documented success response, and a candidate whose
\* serving holds 280 kcal.
ChickenBiryani ==
  Food("Chicken biryani", "chicken biryani", "Survey (FNDDS)",
       <<Nutrient(ENERGY_KCAL, 18000), Nutrient(PROTEIN, 1570)>>, <<156, "g", <<>>>>)

ScenarioFoods ==
  { ChickenBiryani,
    Food("Apple", "apple", "Survey (FNDDS)", <<Nutrient(ENERGY_KCAL, 28000)>>, NoServing) }

RECURSIVE ListsUpTo(_, _)
ListsUpTo(S, n) ==
  IF n = 0 THEN {<<>>}
  ELSE LET shorter == ListsUpTo(S, n - 1)
       IN  shorter \cup {Append(l, x) : l \in shorter, x \in S}

UpstreamFailures ==
  {[kind |-> k, foods |-> <<>>] :
     k \in {"http400", "http403", "timeout", "http500", "malformed"}}

FoodLists(lists) == {[kind |-> "ok", foods |-> l] : l \in lists}

(***************************************************************************)
(* State machine.                                                          *)
(*   upstream    what the USDA API answers to the search of this request   *)
(*   pc          "idle", then for a POST /get-calories request the         *)
(*               middleware chain "strictLimiter", "authenticate",         *)
(*               "handler"; "awaitSearch" (inside await searchFoods);      *)
(*               "done"                                                    *)
(*   caller      "route" (POST /get-calories) or "direct" (a call of the   *)
(*               exported usdaService.calculateCalories)                   *)
(*   outcome     what calculateCalories returned or threw                  *)
(*   httpStatus  the status the route answered, 0 when none                *)
(*   trail       the stages the request has entered, in order              *)
(*   token       what authenticateToken found in the Authorization header  *)
(*   userRow     what the users table answered for the token's userId      *)
(*   searchRequests  search requests sent to the USDA API                  *)
(*   selectorCalls   calls of findBestMatch                                *)
(*   inv         the invocations of calculateCalories that run             *)
(*               concurrently (SpecConcurrent only)                        *)
(*   reg         the users table and the POST /auth/register requests that *)
(*               run concurrently (SpecRegister only)                      *)
(***************************************************************************)
InitRequest ==
  /\ pc = "idle"
  /\ caller = "none"
  /\ dishName = ""
  /\ servings = 0
  /\ outcome = NoOutcome
  /\ httpStatus = 0
  /\ trail = <<>>
  /\ token = "unread"
  /\ userRow = "unread"
  /\ searchRequests = 0
  /\ selectorCalls = 0

\* no concurrent invocations
NoInvocations == [frames |-> <<>>, calls |-> <<>>, log |-> <<>>]

\* no registration requests
NoRegistrations == [stored |-> <<>>, users |-> <<>>, calls |-> <<>>]

InitRest ==
  /\ InitRequest
  /\ inv = NoInvocations
  /\ reg = NoRegistrations

Init ==
  /\ upstream \in FoodLists(ListsUpTo(SelectorFoods, MaxFoods)) \cup UpstreamFailures
  /\ InitRest

InitNutrition ==
  /\ upstream \in FoodLists({<<f>> : f \in NutritionFoods \cup ScenarioFoods})
                    \cup UpstreamFailures
  /\ InitRest

\* mutant: the search request is sent before the input checks
SearchRequestsIssued_Unchecked(d, srv) == 1

\* The search requests calculateCalories sends for its arguments: one, and
\* only when both input checks pass.
SearchRequestsIssued(d, srv) == IF InputError(d, srv) = "" THEN 1 ELSE 0

\* mutant: a timed-out search is sent once more
SearchRetries_OnTimeout(up) == IF up.kind = "timeout" THEN 1 ELSE 0

\* The further search requests sent once the search has settled: searchFoods
\* throws on a failure and calculateCalories re-throws, neither asks again.
SearchRetries(up) == 0

\* mutant: findBestMatch is called before the empty-list check
SelectorCallsMade_Unchecked(up) == IF up.kind = "ok" THEN 1 ELSE 0

\* The calls of findBestMatch calculateCalories makes once the search has
\* settled: one, and only for a non-empty food list.
SelectorCallsMade(up) == IF up.kind = "ok" /\ Len(up.foods) > 0 THEN 1 ELSE 0

\* The stages entered when calculateCalories is called: the route calls it
\* from its handler.
Entered(from) == IF from = "route" THEN Append(trail, "handler") ELSE trail

\* calculateCalories up to its await: the input checks, then the search
\* request is sent.
EnterCalculateCalories(d, srv, from) ==
  /\ dishName' = d
  /\ servings' = srv
  /\ caller' = from
  /\ searchRequests' = searchRequests + SearchRequestsIssued(d, srv)
  /\ IF InputError(d, srv) # ""
     THEN /\ outcome' = CatchCalculateCalories(InputError(d, srv), 0)
          /\ httpStatus' = IF from = "route" THEN RouteStatus(outcome') ELSE 0
          /\ pc' = "done"
          /\ trail' = Append(Entered(from), "calculateCalories")
     ELSE /\ pc' = "awaitSearch"
          /\ trail' = Entered(from) \o <<"calculateCalories", "searchFoods">>
          /\ UNCHANGED <<outcome, httpStatus>>

\* What the Upstash limiter can answer: the request is within the window,
\* over the limit, or the limiter itself failed.
LimiterAnswers == {"allowed", "limited", "error"}

\* createUpstashMiddleware: the status answered, 0 when the request is
\* handed on with next(). A failure of the limiter lets the request through.
LimiterStatus(answer) == IF answer = "limited" THEN 429 ELSE 0

\* What authenticateToken can find in the Authorization header, and what the
\* users table can answer for the userId of a verified token.
Tokens == {"missing", "malformed", "wrongSignature", "expired", "valid"}

UserRows == {"found", "notFound", "dbError"}

\* mutant: the user of a verified token is not looked up
AuthenticateStatus_UserUnchecked(t, row) ==
  IF t = "missing" THEN 401
  ELSE IF t # "valid" THEN 403
  ELSE 0

\* authenticateToken: the status answered, 0 when the request is handed on
\* with next(). jwt.verify throws for a token that is not valid, and the
\* catch block answers for every exception of the try block.
AuthenticateStatus(t, row) ==
  IF t = "missing" THEN 401
  ELSE IF t # "valid" THEN 403
  ELSE IF row = "dbError" THEN 403
  ELSE IF row = "notFound" THEN 401
  ELSE 0

\* app.use(generalLimiterMiddleware): every request passes it first.
GeneralLimiter ==
  /\ pc = "idle"
  /\ \E answer \in LimiterAnswers :
       /\ httpStatus' = LimiterStatus(answer)
       /\ pc' = IF LimiterStatus(answer) = 0 THEN "strictLimiter" ELSE "done"
  /\ caller' = "route"
  /\ trail' = Append(trail, "generalLimiter")
  /\ UNCHANGED <<upstream, dishName, servings, outcome, token, userRow,
                 searchRequests, selectorCalls, inv, reg>>

\* strictLimiterMiddleware, the first middleware of POST /get-calories.
StrictLimiter ==
  /\ pc = "strictLimiter"
  /\ \E answer \in LimiterAnswers :
       /\ httpStatus' = LimiterStatus(answer)
       /\ pc' = IF LimiterStatus(answer) = 0 THEN "authenticate" ELSE "done"
  /\ trail' = Append(trail, "strictLimiter")
  /\ UNCHANGED <<upstream, caller, dishName, servings, outcome, token, userRow,
                 searchRequests, selectorCalls, inv, reg>>

\* authenticateToken, the second middleware of POST /get-calories.
AuthenticateToken ==
  /\ pc = "authenticate"
  /\ \E t \in Tokens, row \in UserRows :
       /\ token' = t
       /\ userRow' = IF t = "valid" THEN row ELSE "unread"
       /\ httpStatus' = AuthenticateStatus(t, row)
       /\ pc' = IF AuthenticateStatus(t, row) = 0 THEN "handler" ELSE "done"
  /\ trail' = Append(trail, "authenticateToken")
  /\ UNCHANGED <<upstream, caller, dishName, servings, outcome,
                 searchRequests, selectorCalls, inv, reg>>

\* The route handler up to the await of calculateCalories.
PostGetCalories ==
  /\ pc = "handler"
  /\ \E d \in DishNames, srv \in ServingsPool :
       IF ~SchemaAccepts(d, srv) \/ srv <= 0
       THEN /\ dishName' = d
            /\ servings' = srv
            /\ caller' = "route"
            /\ httpStatus' = 400
            /\ pc' = "done"
            /\ trail' = Append(trail, "handler")
            /\ UNCHANGED <<outcome, searchRequests>>
       ELSE EnterCalculateCalories(d, srv, "route")
  /\ UNCHANGED <<upstream, token, userRow, selectorCalls, inv, reg>>

\* A direct call of usdaService.calculateCalories.
CallCalculateCalories ==
  /\ pc = "idle"
  /\ \E d \in DishNames, srv \in ServingsPool :
       EnterCalculateCalories(d, srv, "direct")
  /\ UNCHANGED <<upstream, token, userRow, selectorCalls, inv, reg>>

\* The search settles: calculateCalories runs to its end, and the route, if
\* it is the caller, answers.
SearchSettles ==
  /\ pc = "awaitSearch"
  /\ outcome' = CalculateAfterSearch(upstream, dishName, servings)
  /\ httpStatus' = IF caller = "route" THEN RouteStatus(outcome') ELSE 0
  /\ selectorCalls' = selectorCalls + SelectorCallsMade(upstream)
  /\ trail' = IF SelectorCallsMade(upstream) = 1
              THEN Append(trail, "findBestMatch") ELSE trail
  /\ searchRequests' = searchRequests + SearchRetries(upstream)
  /\ pc' = "done"
  /\ UNCHANGED <<upstream, caller, dishName, servings, token, userRow, inv, reg>>

Next ==
  \/ GeneralLimiter
  \/ StrictLimiter
  \/ AuthenticateToken
  \/ PostGetCalories
  \/ CallCalculateCalories
  \/ SearchSettles

Spec == Init /\ [][Next]_vars

SpecNutrition == InitNutrition /\ [][Next]_vars

(***************************************************************************)
(* Concurrent invocations of calculateCalories on the one usdaService      *)
(* object.  inv.frames holds the parameters of the calls, inv.calls what   *)
(* each call was given and what it holds and returns, inv.log the order of *)
(* the steps.  A call runs up to its await in one step and from the        *)
(* settled search to its end in another: it has no other await.            *)
(***************************************************************************)
NumInvocations == 2

Invocations == 1..NumInvocations

ConcurrentDishes == {"apple", "fish", "   "}

ConcurrentServings == {0, 10, 20}

ConcurrentFoods ==
  << Food("Apple", "apple", "Survey (FNDDS)", Kcal52, NoServing),
     Food("Pie, apple", "pie, apple", "SR Legacy", Kcal52, <<156, "g", <<>>>>) >>

ConcurrentResponses ==
  FoodLists({<<>>, ConcurrentFoods}) \cup {[kind |-> "timeout", foods |-> <<>>]}

NoResponse == [kind |-> "none", foods |-> <<>>]

\* mutant: the parameters are kept in one place shared by all calls
Frame_Shared(i) == 1

\* Where call i keeps dishName and servings: they are parameters, held in
\* the frame of that call.
Frame(i) == i

\* The list calculateCalories holds once findBestMatch has returned: the
\* tiers only read it, and the sort is made on the mapped copy scoredFoods.
FoodsAfterSelection(foods, query) == foods

InitConcurrent ==
  /\ upstream = [kind |-> "timeout", foods |-> <<>>]
  /\ InitRequest
  /\ inv = [frames |-> [i \in Invocations |-> [dishName |-> "", servings |-> 0]],
            calls  |-> [i \in Invocations |->
                          [pc |-> "idle", dishName |-> "", servings |-> 0,
                           response |-> NoResponse, foods |-> <<>>,
                           outcome |-> NoOutcome]],
            log    |-> <<>>]
  /\ reg = NoRegistrations

\* Call i of calculateCalories up to its await.
Invoke(i) ==
  /\ inv.calls[i].pc = "idle"
  /\ \E d \in ConcurrentDishes, srv \in ConcurrentServings :
       inv' = [frames |-> [inv.frames EXCEPT ![Frame(i)] =
                             [dishName |-> d, servings |-> srv]],
               calls  |-> [inv.calls EXCEPT ![i] =
                             [@ EXCEPT
                                !.dishName = d,
                                !.servings = srv,
                                !.pc = IF InputError(d, srv) # "" THEN "done"
                                       ELSE "awaitSearch",
                                !.outcome = IF InputError(d, srv) # ""
                                            THEN CatchCalculateCalories(InputError(d, srv), 0)
                                            ELSE @]],
               log    |-> Append(inv.log, <<"invoke", i>>)]
  /\ UNCHANGED <<upstream, pc, caller, dishName, servings, outcome, httpStatus,
                 trail, token, userRow, searchRequests, selectorCalls, reg>>

\* The search of call i settles and the call runs to its end.
Settle(i) ==
  /\ inv.calls[i].pc = "awaitSearch"
  /\ \E r \in ConcurrentResponses :
       LET frame == inv.frames[Frame(i)]
       IN  inv' = [inv EXCEPT
                     !.calls[i].pc = "done",
                     !.calls[i].response = r,
                     !.calls[i].foods =
                        IF SelectorCallsMade(r) = 1
                        THEN FoodsAfterSelection(r.foods, frame.dishName)
                        ELSE r.foods,
                     !.calls[i].outcome =
                        CalculateAfterSearch(r, frame.dishName, frame.servings),
                     !.log = Append(inv.log, <<"settle", i>>)]
  /\ UNCHANGED <<upstream, pc, caller, dishName, servings, outcome, httpStatus,
                 trail, token, userRow, searchRequests, selectorCalls, reg>>

NextConcurrent == \E i \in Invocations : Invoke(i) \/ Settle(i)

SpecConcurrent == InitConcurrent /\ [][NextConcurrent]_vars

(***************************************************************************)
(* Concurrent POST /auth/register requests.  reg.users is the email column *)
(* of the users table in insertion order, reg.stored the table before the  *)
(* requests, reg.calls the email and the answer of each request.  Every    *)
(* await of the handler ends a step: the limiter, the select together with *)
(* the checks before and after it, and the insert with the answer.         *)
(***************************************************************************)
NumRegistrations == 2

Registrations == 1..NumRegistrations

Emails == {"ann@example.com", "bob@example.com"}

\* registerSchema.safeParse: the bodies are taken as a valid one with an
\* email of the pool, or an invalid one
RegisterBodies == {[valid |-> TRUE, email |-> e] : e \in Emails}
                    \cup {[valid |-> FALSE, email |-> ""]}

\* the users table has a row with this email
EmailExists(table, email) == \E k \in 1..Len(table) : table[k] = email

\* email VARCHAR(255) NOT NULL UNIQUE
EmailUnique == TRUE

\* The handler from safeParse to the answer of the select: the status
\* answered, 0 when the handler goes on to hash the password.
RegisterCheckStatus(body, table) ==
  IF ~body.valid THEN 400
  ELSE IF EmailExists(table, body.email) THEN 409
  ELSE 0

\* The insert and what follows it: the insert fails on a duplicate email and
\* the catch block answers 500, else the row is stored and 201 is answered.
RegisterInsertStatus(email, table) ==
  IF EmailUnique /\ EmailExists(table, email) THEN 500 ELSE 201

InitRegister ==
  /\ upstream = [kind |-> "timeout", foods |-> <<>>]
  /\ InitRequest
  /\ inv = NoInvocations
  /\ \E table \in {<<>>, <<"ann@example.com">>} :
       reg = [stored |-> table, users |-> table,
              calls  |-> [i \in Registrations |->
                            [pc |-> "idle", email |-> "", status |-> 0]]]

\* authLimiterMiddleware of request i.
RegisterLimiter(i) ==
  /\ reg.calls[i].pc = "idle"
  /\ \E answer \in LimiterAnswers :
       reg' = [reg EXCEPT
                 !.calls[i].status = LimiterStatus(answer),
                 !.calls[i].pc = IF LimiterStatus(answer) = 0 THEN "handler"
                                 ELSE "done"]
  /\ UNCHANGED <<upstream, pc, caller, dishName, servings, outcome, httpStatus,
                 trail, token, userRow, searchRequests, selectorCalls, inv>>

\* The handler of request i up to the await of bcrypt.hash.
RegisterCheck(i) ==
  /\ reg.calls[i].pc = "handler"
  /\ \E body \in RegisterBodies :
       reg' = [reg EXCEPT
                 !.calls[i].email = body.email,
                 !.calls[i].status = RegisterCheckStatus(body, reg.users),
                 !.calls[i].pc = IF RegisterCheckStatus(body, reg.users) = 0
                                 THEN "hashed" ELSE "done"]
  /\ UNCHANGED <<upstream, pc, caller, dishName, servings, outcome, httpStatus,
                 trail, token, userRow, searchRequests, selectorCalls, inv>>

\* The insert of request i and its answer.
RegisterInsert(i) ==
  /\ reg.calls[i].pc = "hashed"
  /\ LET email  == reg.calls[i].email
         status == RegisterInsertStatus(email, reg.users)
     IN  reg' = [reg EXCEPT
                   !.users = IF status = 201 THEN Append(@, email) ELSE @,
                   !.calls[i].status = status,
                   !.calls[i].pc = "done"]
  /\ UNCHANGED <<upstream, pc, caller, dishName, servings, outcome, httpStatus,
                 trail, token, userRow, searchRequests, selectorCalls, inv>>

NextRegister ==
  \E i \in Registrations : RegisterLimiter(i) \/ RegisterCheck(i) \/ RegisterInsert(i)

SpecRegister == InitRegister /\ [][NextRegister]_vars

(***************************************************************************)
(* Properties of the match selector.                                       *)
(***************************************************************************)
\* the search has returned a non-empty list for a request that passed the
\* input checks
SelectorRan ==
  /\ pc = "done"
  /\ Len(Trim(dishName)) > 0 /\ servings > 0
  /\ upstream.kind = "ok" /\ Len(upstream.foods) > 0

Selected == SelectorRan /\ outcome.matched # 0

Candidates == 1..Len(upstream.foods)

Least(S) == CHOOSE i \in S : \A j \in S : i <= j

\* the comparison form of the query
Needle == Trim(ToLowerCase(dishName))

DescriptionEquals(i) == ToLowerCase(upstream.foods[i].description) = Needle

DescriptionStartsWith(i) ==
  StartsWith(ToLowerCase(upstream.foods[i].description), Needle)

DescriptionContains(i) ==
  Includes(ToLowerCase(upstream.foods[i].description), Needle)

\* the tier predicates as the selector applies them: to the description or
\* to the lowercaseDescription field of the candidate
EitherEquals(i) ==
  DescriptionEquals(i) \/ upstream.foods[i].lowercaseDescription = Needle

EitherStartsWith(i) ==
  DescriptionStartsWith(i) \/ StartsWith(upstream.foods[i].lowercaseDescription, Needle)

EitherContains(i) ==
  DescriptionContains(i) \/ Includes(upstream.foods[i].lowercaseDescription, Needle)

C3_ScoredOrFirst ==
  SelectorRan =>
    LET qw       == QueryWords(Needle)
        score(i) == ScoreTimesN(upstream.foods[i], qw)
        isMax(i) == \A j \in Candidates : score(j) <= score(i)
        r        == outcome.matched
    IN  /\ r \in Candidates
        /\ (~\E i \in Candidates : EitherContains(i)) =>
             IF \E i \in Candidates : score(i) > 20 * Len(qw)
             THEN isMax(r)
             ELSE r = 1

\* The maximum score is exactly 20, held by the second candidate, and the
\* first candidate is returned.
C3_Witness ==
  /\ Selected
  /\ Len(upstream.foods) = 2
  /\ ~\E i \in Candidates : EitherContains(i)
  /\ ScoreTimesN(upstream.foods[2], QueryWords(Needle)) = 20 * Len(QueryWords(Needle))
  /\ ScoreTimesN(upstream.foods[1], QueryWords(Needle)) < 20 * Len(QueryWords(Needle))
  /\ outcome.matched = 1

(***************************************************************************)
(* Properties of the extractor and the calculator.                         *)
(***************************************************************************)
\* calculateCalories has ended after selecting a candidate
Matched == pc = "done" /\ outcome.matched # 0

Returned == pc = "done" /\ outcome.kind = "ok"

MatchedSamples == upstream.foods[outcome.matched].foodNutrients

\* the values of the matched candidate's positive samples of a nutrient
PositiveValues(id) ==
  {MatchedSamples[k].value : k \in {j \in 1..Len(MatchedSamples) :
     MatchedSamples[j].nutrientId = id /\ MatchedSamples[j].value > 0}}

MissingEnergyFailure ==
  /\ outcome.kind = "error"
  /\ Includes(outcome.message, "No calorie information available")

\* C4: a returned breakdown always comes from a candidate holding a positive
\* kcal or kJ sample and has calories_per_100g > 0; a matched candidate
\* without positive energy makes the invocation fail.
C4_NoBreakdownWithoutEnergy ==
  /\ Returned =>
       /\ outcome.matched # 0
       /\ outcome.calories_per_100g > 0
       /\ PositiveValues(ENERGY_KCAL) \cup PositiveValues(ENERGY_KJ) # {}
  /\ (Matched /\ PositiveValues(ENERGY_KCAL) \cup PositiveValues(ENERGY_KJ) = {})
       => (outcome.kind = "error" /\ httpStatus # 200)

\* A matched candidate whose only energy sample is a negative kcal value
\* ends in a failure.
C4_Witness ==
  /\ Matched
  /\ \E k \in 1..Len(MatchedSamples) :
       MatchedSamples[k].nutrientId = ENERGY_KCAL /\ MatchedSamples[k].value < 0
  /\ PositiveValues(ENERGY_KCAL) \cup PositiveValues(ENERGY_KJ) = {}
  /\ MissingEnergyFailure

\* C5: when the matched candidate holds a positive kcal sample, also among
\* several samples of the same id, the request succeeds and
\* calories_per_100g is the value of a positive kcal sample.
C5_PositiveKcalUsed ==
  (Matched /\ PositiveValues(ENERGY_KCAL) # {})
    => (outcome.kind = "ok" /\ outcome.calories_per_100g \in PositiveValues(ENERGY_KCAL))

\* C6: with no positive kcal sample and a positive kJ sample k the request
\* succeeds with calories_per_100g = round(k / 4.184), and the missing-energy
\* failure is raised exactly when there is neither a positive kcal nor a
\* positive kJ sample.
C6_KjFallback ==
  Matched =>
    /\ (PositiveValues(ENERGY_KCAL) = {} /\ PositiveValues(ENERGY_KJ) # {})
         => /\ outcome.kind = "ok"
            /\ \E k \in PositiveValues(ENERGY_KJ) :
                 outcome.calories_per_100g = 100 * ((20 * k + 4184) \div 8368)
    /\ MissingEnergyFailure
         <=> (PositiveValues(ENERGY_KCAL) = {} /\ PositiveValues(ENERGY_KJ) = {})

\* C7: a matched candidate without positive kcal and kJ makes
\* calculateCalories throw the missing-energy error naming the dish and the
\* candidate's description, unchanged by the catch block, and the route
\* answers 422.
C7_MissingEnergyGives422 ==
  (Matched /\ PositiveValues(ENERGY_KCAL) = {} /\ PositiveValues(ENERGY_KJ) = {})
    => /\ outcome.kind = "error"
       /\ outcome.message =
            "No calorie information available for \"" \o dishName
              \o "\". The food \"" \o upstream.foods[outcome.matched].description
              \o "\" does not have energy data."
       /\ caller = "route" => httpStatus = 422

Blocks ==
  {outcome.macronutrients_per_100g, outcome.macronutrients_per_serving,
   outcome.total_macronutrients}

NutrientIdOf(key) ==
  CASE key = "fiber" -> 1079 [] key = "sugars" -> 2000 [] key = "saturated_fat" -> 1258

\* C8: an optional macronutrient without a positive source value is absent
\* from all three macronutrient blocks of a returned breakdown.
C8_NonPositiveOmitted ==
  Returned =>
    \A key \in {"fiber", "sugars", "saturated_fat"} :
      PositiveValues(NutrientIdOf(key)) = {}
        => \A b \in Blocks : key \notin DOMAIN b

\* C9: no optional macronutrient of a returned breakdown carries the value 0
\* in any of the three blocks.
C9_NoZeroOptional ==
  Returned =>
    \A key \in {"fiber", "sugars", "saturated_fat"} :
      \A b \in Blocks : key \in DOMAIN b => b[key] # 0

C11_TotalFromRoundedServing ==
  Returned =>
    LET n     == outcome.calories_per_serving
        total == outcome.total_calories
    IN  /\ 20 * total - 10 <= 2 * n * servings
        /\ 2 * n * servings < 20 * total + 10
        /\ servings % 10 = 0 => total = n * (servings \div 10)
        /\ (n = 280 /\ servings = 20) => total = 560

\* A response whose total differs from the rounding of the unrounded figure:
\* 1 kcal per 100 g, a 50 g serving and 2 servings give 2, where the
\* unrounded 0.5 kcal per serving would give 1.
C11_Witness ==
  /\ Returned
  /\ servings = 20
  /\ outcome.calories_per_serving = 1
  /\ outcome.total_calories = 2
  /\ MathRound(outcome.calories_per_100g * outcome.serving_size_grams * servings,
               100000) = 1

\* the example of the specification: 280 kcal per serving and 2 servings
C11_Example ==
  Returned /\ outcome.calories_per_serving = 280 /\ servings = 20

\* the request of the documented example has been answered: "chicken
\* biryani", 2 servings, and a search result holding the single candidate
BiryaniAnswered ==
  /\ pc = "done"
  /\ dishName = "chicken biryani"
  /\ servings = 20
  /\ upstream = [kind |-> "ok", foods |-> <<ChickenBiryani>>]

\* the candidate equals the query in full, which is the exact tier
SelectedByExactMatch ==
  /\ outcome.matched = 1
  /\ ToLowerCase(upstream.foods[1].description) = Needle

NoServingData(food) == food.servingSize <= 0 /\ Len(food.foodMeasures) = 0

\* C13: calculateServingSize gives 100 grams for every candidate without a
\* positive declared serving size and without alternate measures, and the
\* response built from such a candidate has a serving size of 100 grams.
C13_DefaultServingSize ==
  /\ upstream.kind = "ok" =>
        \A i \in Candidates :
          NoServingData(upstream.foods[i]) =>
            CalculateServingSize(upstream.foods[i]) = 100
  /\ (Returned /\ NoServingData(upstream.foods[outcome.matched])) =>
        outcome.serving_size_grams = 100

\* a response built from a candidate whose declared size is negative, with a
\* gram unit and no measures
C13_Witness ==
  /\ Returned
  /\ upstream.foods[outcome.matched].servingSize < 0
  /\ upstream.foods[outcome.matched].servingSizeUnit = "g"
  /\ NoServingData(upstream.foods[outcome.matched])
  /\ outcome.serving_size_grams = 100

(***************************************************************************)
(* Properties of the failures and of the requests sent to the USDA API.    *)
(***************************************************************************)
InTrail(stage) == \E k \in 1..Len(trail) : trail[k] = stage

\* calculateCalories has been called
Invoked == InTrail("calculateCalories")

\* the dish name is empty after trimming, or servings is not positive
InvalidInput == Len(Trim(dishName)) = 0 \/ servings <= 0

\* C14: when the dish name is empty after trimming or servings <= 0,
\* calculateCalories fails at once and no search request has been sent to
\* the USDA API for that invocation.
C14_InputErrorsBeforeSearch ==
  (Invoked /\ InvalidInput) =>
    /\ pc = "done"
    /\ outcome.kind = "error"
    /\ searchRequests = 0
    /\ ~InTrail("searchFoods")

\* a direct call with a good dish name and servings 0 has failed
C14_Witness ==
  /\ Invoked
  /\ caller = "direct"
  /\ dishName = "apple"
  /\ servings = 0
  /\ outcome.kind = "error"
  /\ searchRequests = 0

\* the request passed both limiters and authenticateToken
Authenticated == InTrail("handler")

\* C15: every authenticated POST /get-calories request whose dish_name is
\* empty after trimming, or whose servings is not positive, is answered with
\* HTTP 400.
C15_InvalidInputGives400 ==
  (pc = "done" /\ caller = "route" /\ Authenticated /\ InvalidInput) =>
    httpStatus = 400

\* the search returned an empty list for a request that passed the input
\* checks
EmptySearchResult ==
  /\ pc = "done"
  /\ Invoked /\ ~InvalidInput
  /\ upstream.kind = "ok" /\ Len(upstream.foods) = 0

\* C16: when the search returns an empty list, calculateCalories fails with
\* the no-foods-found error naming the dish, findBestMatch has not been
\* called, and the route answers 404.
C16_EmptyListGives404 ==
  EmptySearchResult =>
    /\ outcome.kind = "error"
    /\ outcome.message = MsgNoFoodsFound(dishName)
    /\ Includes(outcome.message, dishName)
    /\ selectorCalls = 0
    /\ ~InTrail("findBestMatch")
    /\ caller = "route" => httpStatus = 404

C16_Witness ==
  /\ EmptySearchResult
  /\ caller = "route"
  /\ dishName = "fish"
  /\ httpStatus = 404
  /\ searchRequests = 1

\* C17: an invocation of calculateCalories sends at most one search request:
\* exactly one when the input checks pass and none when they fail, whatever
\* the search answers and however the invocation ends.
C17_NoRetries ==
  /\ searchRequests <= 1
  /\ Invoked => (searchRequests = 1 <=> ~InvalidInput)
  /\ (pc = "done" /\ Invoked /\ ~InvalidInput) => searchRequests = 1

\* a timed-out search has ended the invocation after one request
C17_Witness ==
  /\ pc = "done"
  /\ upstream.kind = "timeout"
  /\ outcome.kind = "error"
  /\ searchRequests = 1

\* the kind of failure a caller can read from the thrown error
FailureKind(message) ==
  IF StartsWith(message, MsgDishNameEmpty) \/ StartsWith(message, "Servings must be")
  THEN "input"
  ELSE IF StartsWith(message, "No foods found") \/ StartsWith(message, "No suitable match found")
  THEN "noCandidates"
  ELSE IF StartsWith(message, "No calorie information available")
  THEN "missingEnergy"
  ELSE "upstream"

\* what made the invocation fail
Cause ==
  IF InvalidInput THEN "input"
  ELSE IF upstream.kind # "ok" THEN "upstream"
  ELSE IF Len(upstream.foods) = 0 \/ outcome.matched = 0 THEN "noCandidates"
  ELSE "missingEnergy"

FullyPopulated ==
  /\ outcome.name # ""
  /\ outcome.calories_per_100g > 0
  /\ outcome.serving_size_grams # 0
  /\ \A b \in Blocks : RequiredMacros \subseteq DOMAIN b

\* C18: an invocation of calculateCalories ends either with a fully populated
\* breakdown or with one failure whose kind tells its cause: input error,
\* upstream failure, no candidates or missing energy data; servings <= 0
\* surfaces as the input error.
C18_TypedFailures ==
  (pc = "done" /\ Invoked) =>
    \/ outcome.kind = "ok" /\ FullyPopulated
    \/ /\ outcome.kind = "error"
       /\ FailureKind(outcome.message) = Cause

\* C20: a POST /get-calories request without a token, or with a token that
\* fails verification, is answered with HTTP 401 and does not reach the
\* handler.
C20_UnverifiedGives401 ==
  (pc = "done" /\ token \in {"missing", "malformed", "wrongSignature", "expired"}) =>
    /\ httpStatus = 401
    /\ ~InTrail("handler")

(***************************************************************************)
(* Concurrent invocations.                                                 *)
(***************************************************************************)
\* what calculateCalories gives when it runs alone
RunAlone(d, srv, response) ==
  IF InputError(d, srv) # "" THEN CatchCalculateCalories(InputError(d, srv), 0)
  ELSE CalculateAfterSearch(response, d, srv)

TierOf(i) ==
  LET needle      == Needle
      description == ToLowerCase(upstream.foods[i].description)
      field       == upstream.foods[i].lowercaseDescription
  IN  IF description = needle \/ field = needle THEN 1
      ELSE IF StartsWith(description, needle) \/ StartsWith(field, needle) THEN 2
      ELSE IF Includes(description, needle) \/ Includes(field, needle) THEN 3
      ELSE 4

Tiers == [i \in Candidates |-> TierOf(i)]

\* the tier that decides: the highest tier some candidate satisfies
DecidingTier == LET tiers == Tiers IN Least({tiers[i] : i \in Candidates})

ScoreOf(i) == ScoreTimesN(upstream.foods[i], QueryWords(Needle))

Scores == [i \in Candidates |-> ScoreOf(i)]

HoldsMaxScore(i) == LET scores == Scores IN \A j \in Candidates : scores[j] <= scores[i]

\* C22: among the candidates that satisfy the predicate of the deciding tier
\* (exact, starts-with, contains) the earliest in the list is returned, and
\* in the scored tier, among the candidates holding the maximum score above
\* 20, the earliest in the list is returned.
C22_TiesByInputOrder ==
  Selected =>
    LET tiers    == Tiers
        deciding == Least({tiers[i] : i \in Candidates})
        scores   == Scores
    IN  /\ deciding <= 3 =>
              outcome.matched = Least({i \in Candidates : tiers[i] = deciding})
        /\ (deciding = 4 /\ \E i \in Candidates :
                scores[i] > 20 * Len(QueryWords(Needle))) =>
              outcome.matched =
                Least({i \in Candidates : \A j \in Candidates : scores[j] <= scores[i]})

\* two different candidates share the maximum score above 20 in the scored
\* tier and the first is returned
C22_Witness ==
  /\ Selected
  /\ Len(upstream.foods) = 2
  /\ upstream.foods[1] # upstream.foods[2]
  /\ DecidingTier = 4
  /\ ScoreOf(1) = ScoreOf(2)
  /\ ScoreOf(1) > 20 * Len(QueryWords(Needle))
  /\ outcome.matched = 1

\* the words of the candidate's lower-cased description: its maximal runs of
\* characters other than whitespace
DescriptionWords(i) ==
  SelectSeq(SplitWhitespace(ToLowerCase(upstream.foods[i].description)),
            LAMBDA w : Len(w) > 0)

\* the query words for which some word of the description contains the query
\* word or is contained in it
WordsInCommon(i) ==
  SelectSeq(QueryWords(Needle),
    LAMBDA q : \E k \in 1..Len(DescriptionWords(i)) :
                 Includes(DescriptionWords(i)[k], q) \/ Includes(q, DescriptionWords(i)[k]))

\* C23: the tier-4 score of a candidate is the share of query words that
\* have a word of the description in common, times 100, plus the data-type
\* bonus (Foundation 20, SR Legacy 15, Survey (FNDDS) 10, Branded 0), plus 10
\* for a kcal sample above 0, minus 5 for a description longer than 100
\* characters.  Both sides are multiplied by the number of query words.
C23_ScoreFormula ==
  SelectorRan =>
    \A i \in Candidates :
      LET n    == Len(QueryWords(Needle))
          food == upstream.foods[i]
          bonus == CASE food.dataType = "Foundation"     -> 20
                     [] food.dataType = "SR Legacy"      -> 15
                     [] food.dataType = "Survey (FNDDS)" -> 10
                     [] OTHER                            -> 0
          kcal == IF \E k \in 1..Len(food.foodNutrients) :
                       food.foodNutrients[k].nutrientId = 1008
                         /\ food.foodNutrients[k].value > 0
                  THEN 10 ELSE 0
          long == IF Len(food.description) > 100 THEN 5 ELSE 0
      IN  ScoreOf(i) = Len(WordsInCommon(i)) * 100 + n * (bonus + kcal - long)

(***************************************************************************)
(* Properties of the serving size resolver.                                *)
(***************************************************************************)
MatchedFood == upstream.foods[outcome.matched]

\* the declared unit denominates grams
GramUnit(food) ==
  ToLowerCase(food.servingSizeUnit) \in {"g", "gm", "grm", "gram", "grams"}

\* the measures whose unit name contains the declared unit, case-insensitively
MeasuresOfUnit(food) ==
  {k \in 1..Len(food.foodMeasures) :
     Includes(ToLowerCase(food.foodMeasures[k].measureUnitName),
              ToLowerCase(food.servingSizeUnit))}

\* rule 2 applies: a positive size declared with a unit that is not grams and
\* that some measure carries
RuleTwoApplies(food) ==
  /\ food.servingSize > 0
  /\ food.servingSizeUnit # ""
  /\ ~GramUnit(food)
  /\ MeasuresOfUnit(food) # {}

\* rules 2 to 4 of the resolver
RulesTwoToFour(food) ==
  IF RuleTwoApplies(food)
  THEN food.servingSize * food.foodMeasures[Least(MeasuresOfUnit(food))].gramWeight
  ELSE IF Len(food.foodMeasures) > 0 THEN food.foodMeasures[1].gramWeight
  ELSE 100

\* C24: the declared serving size is used directly as grams for exactly the
\* candidates whose positive declared size has a gram unit, measures or not;
\* for a declared unit that is not grams (mg, kg, oz, cup) the result comes
\* from rules 2 to 4.
C24_RuleOneOnlyForGrams ==
  Returned =>
    /\ (MatchedFood.servingSize > 0 /\ GramUnit(MatchedFood)) =>
          outcome.serving_size_grams = MatchedFood.servingSize
    /\ (MatchedFood.servingSize > 0 /\ MatchedFood.servingSizeUnit # ""
           /\ ~GramUnit(MatchedFood)) =>
          outcome.serving_size_grams = RulesTwoToFour(MatchedFood)

\* C25: for a positive declared size s with a unit that is not grams and that
\* some measure's unit name contains, the serving grams are s times the gram
\* weight of the first such measure.
C25_MeasureTimesSize ==
  (Returned /\ RuleTwoApplies(MatchedFood)) =>
    outcome.serving_size_grams =
      MatchedFood.servingSize
        * MatchedFood.foodMeasures[Least(MeasuresOfUnit(MatchedFood))].gramWeight

\* no usable declared size: absent or not positive, declared without a unit,
\* or declared with a unit that is not grams and that no measure carries
NoUsableDeclaredSize(food) ==
  \/ food.servingSize <= 0
  \/ food.servingSizeUnit = ""
  \/ ~GramUnit(food) /\ MeasuresOfUnit(food) = {}

\* C26: with at least one measure and no usable declared size, the serving
\* grams are the gram weight of the first measure, not multiplied by the
\* declared size.
C26_FirstMeasure ==
  (Returned /\ Len(MatchedFood.foodMeasures) > 0 /\ NoUsableDeclaredSize(MatchedFood)) =>
    outcome.serving_size_grams = MatchedFood.foodMeasures[1].gramWeight

(***************************************************************************)
(* Properties of the macronutrient blocks.                                 *)
(***************************************************************************)
\* the per-100 g value of a macronutrient in the matched candidate: that of
\* the first sample carrying its nutrient id, 0 when there is none
\* (hundredths of a gram)
SourceValue(key) ==
  LET ids == {k \in 1..Len(MatchedSamples) :
                MatchedSamples[k].nutrientId = MacroNutrientId(key)}
  IN  IF ids = {} THEN 0 ELSE MatchedSamples[Least(ids)].value

\* x is num / den rounded to the nearest integer
NearestTo(x, num, den) ==
  /\ 2 * den * x - den <= 2 * num
  /\ 2 * num <= 2 * den * x + den

C28_SameShape ==
  Returned =>
    \A key \in OptionalMacros :
      /\ (key \in DOMAIN outcome.macronutrients_per_100g)
           <=> (key \in DOMAIN outcome.macronutrients_per_serving)
      /\ (key \in DOMAIN outcome.macronutrients_per_serving)
           <=> (key \in DOMAIN outcome.total_macronutrients)

(***************************************************************************)
(* The selection is made once.                                             *)
(***************************************************************************)
\* the candidate the tiers designate: the earliest of the deciding tier, in
\* the scored tier the earliest holding a maximum score above 20, else the
\* first of the list
Designated ==
  LET tiers    == Tiers
      deciding == Least({tiers[i] : i \in Candidates})
      scores   == Scores
  IN  IF deciding <= 3 THEN Least({i \in Candidates : tiers[i] = deciding})
      ELSE IF \E i \in Candidates : scores[i] > 20 * Len(QueryWords(Needle))
           THEN Least({i \in Candidates : \A j \in Candidates : scores[j] <= scores[i]})
           ELSE 1

\* the candidate has a positive kcal or kJ sample
HasEnergySample(food) ==
  \E k \in 1..Len(food.foodNutrients) :
    /\ food.foodNutrients[k].nutrientId \in {1008, 1062}
    /\ food.foodNutrients[k].value > 0

\* C29: findBestMatch is called once and its candidate is final: when that
\* candidate has no energy sample, calculateCalories fails with the
\* missing-energy error naming it, even when other candidates of the list
\* have positive energy samples, and a breakdown is only ever built from the
\* selected candidate.
C29_SelectedOnce ==
  SelectorRan =>
    LET index      == Designated
        designated == upstream.foods[index]
    IN  /\ selectorCalls = 1
        /\ outcome.matched = index
        /\ ~HasEnergySample(designated) =>
              /\ outcome.kind = "error"
              /\ outcome.message =
                   MsgNoCalorieInformation(dishName, designated.description)
        /\ outcome.kind = "ok" =>
              /\ outcome.name = designated.description
              /\ HasEnergySample(designated)

\* the exact match has no energy sample, the other candidate of the list has
\* one, and the request fails
C29_Witness ==
  /\ SelectorRan
  /\ Len(upstream.foods) = 2
  /\ outcome.matched = 1
  /\ EitherEquals(1)
  /\ ~HasEnergySample(upstream.foods[1])
  /\ HasEnergySample(upstream.foods[2])
  /\ EitherContains(2)
  /\ outcome.kind = "error"
  /\ caller = "route"
  /\ httpStatus = 422

(***************************************************************************)
(* Order of the stages of POST /get-calories.                              *)
(***************************************************************************)
RouteStages ==
  <<"generalLimiter", "strictLimiter", "authenticateToken", "handler",
    "calculateCalories", "searchFoods", "findBestMatch">>

IsPrefix(a, b) == Len(a) <= Len(b) /\ a = SubSeq(b, 1, Len(a))

LastStage == IF trail = <<>> THEN "" ELSE trail[Len(trail)]

\* C30: the stages of a POST /get-calories request run in one order, general
\* limiter, calorie limiter, token verification with user lookup, body
\* validation, search; the search request is sent only when no limiter
\* answered 429, the token verified, its user was found and the body passed
\* the schema; a request rejected at a stage enters no later stage and sends
\* no search request.
C30_StagesGateEachOther ==
  caller = "route" =>
    /\ IsPrefix(trail, RouteStages)
    /\ searchRequests > 0 =>
          /\ IsPrefix(SubSeq(RouteStages, 1, 6), trail)
          /\ token = "valid" /\ userRow = "found"
          /\ SchemaAccepts(dishName, servings)
          /\ pc = "awaitSearch" => httpStatus = 0
    /\ httpStatus = 429 =>
          /\ pc = "done" /\ searchRequests = 0
          /\ LastStage \in {"generalLimiter", "strictLimiter"}
          /\ token = "unread"
    /\ httpStatus \in {401, 403} =>
          /\ pc = "done" /\ searchRequests = 0
          /\ LastStage = "authenticateToken"
    /\ httpStatus = 400 =>
          /\ pc = "done" /\ searchRequests = 0
          /\ LastStage = "handler"

\* the search request of a route request has been sent
C30_Witness ==
  /\ caller = "route"
  /\ pc = "awaitSearch"
  /\ searchRequests = 1
  /\ trail = SubSeq(RouteStages, 1, 6)
  /\ token = "valid" /\ userRow = "found"

(***************************************************************************)
(* Registration.                                                           *)
(***************************************************************************)
RowsWith(email) == {k \in 1..Len(reg.users) : reg.users[k] = email}

\* the requests that asked to register this email with a valid body
RequestsFor(email) == {i \in DOMAIN reg.calls : reg.calls[i].email = email}

AllAnswered == \A i \in DOMAIN reg.calls : reg.calls[i].pc = "done"

\* C21: a registration for an email of a stored user is answered 409 and
\* adds no row; when two concurrent registrations carry the same new email,
\* one row with it exists afterwards, one request is answered 201 and the
\* other 409.
C21_DuplicateEmailConflict ==
  AllAnswered =>
    \A email \in Emails :
      /\ EmailExists(reg.stored, email) =>
            /\ \A i \in RequestsFor(email) : reg.calls[i].status = 409
            /\ Cardinality(RowsWith(email)) = 1
      /\ (~EmailExists(reg.stored, email) /\ Cardinality(RequestsFor(email)) = 2) =>
            /\ Cardinality(RowsWith(email)) <= 1
            /\ Cardinality({i \in RequestsFor(email) : reg.calls[i].status = 201}) = 1
            /\ Cardinality({i \in RequestsFor(email) : reg.calls[i].status = 409}) = 1

====
